---- MODULE Spec2Model ----
\* Model of the dhraviq backend: the multi-agent fan-out of
\* agentic_ai_backend.run_agents / main.run_agents_endpoint, the per-agent
\* invoker process_agent_response, the session and reminder writes, the
\* detached Pushover notification task and health_check (Spec, LiveSpec),
\* and the daily job scripts/send_daily_motivation.main (JobSpec).
EXTENDS Integers, Sequences, FiniteSets, TLC

\* ---------------------------------------------------------------- bounds
MaxLen == 2
MaxRequests == 1
MaxPosts == 2
MaxRuns == 2
MaxDays == 2

\* ------------------------------------------------------- program constants
MAX_AGENTS == 5

\* The registry keys that the model distinguishes: one registered persona and
\* one identifier that is absent from AGENT_SPECIALIZATIONS.
KnownAgents == {"GoalClarifier"}
AgentIds == KnownAgents \cup {"Custom"}
Users == {"u1"}
\* The two entry points: agentic_ai_backend.run_agents ("backend") and the
\* /run_agents handler main.run_agents_endpoint ("main"). The handler's body
\* uses process_agent_response, asyncio, firestore and extract_tech_keywords,
\* which main.py does not import; they are read as agentic_ai_backend's.
Entries == {"backend", "main"}

VARIABLES
  db_init,        \* agentic_ai_backend.db is not None
  gemini_init,    \* agentic_ai_backend.gemini_model is not None
  pushover_creds, \* PUSHOVER_TOKEN and PUSHOVER_USER are both set
  pc,             \* position of the request handler
  nreq,           \* number of requests received so far (id of the current one)
  req,            \* the AgentRequest being handled
  tasks,          \* status of each process_agent_response task of the fan-out
  attempts,       \* generate_content calls made by each task
  calls,          \* what the generation backend did with each task's call
  results,        \* outcome of each task, in request order
  responses,      \* the responses dict, as a set of <<agent, text>> pairs
  session_ref,    \* id of the session document of the current request
  response,       \* what the caller of the current request received
  sessions,       \* the "sessions" collection, one record per document
  users,          \* the "users" collection
  notif,          \* state of the notification task of each request
  reqlog,         \* per request: reminder flag and outcome of the two writes
  posts,          \* per request: POSTs its notification task made to Pushover
  health,         \* the report returned by the latest health_check call
  clock,          \* scripts/send_daily_motivation: the UTC day of the month
  jpc,            \* position of the daily job's main()
  today,          \* the day main() read from the clock when it started
  stream,         \* the user documents its query returned, not yet visited
  sends,          \* per user and run date: send_email calls made
  mailed,      \* the <<user, date>> pairs whose mail SendGrid accepted
  nruns,          \* runs of the job started so far
  update_failed   \* some lastEmailSent update raised

vars == <<db_init, gemini_init, pushover_creds, pc, nreq, req, tasks, attempts,
          calls, results, responses, session_ref, response, sessions, users, notif,
          reqlog, posts, health, clock, jpc, today, stream, sends, mailed,
          nruns, update_failed>>

\* The state of the daily motivation job, which no handler of the API touches.
job_vars == <<clock, jpc, today, stream, sends, mailed, nruns, update_failed>>

\* ------------------------------------------------------------ value shapes
NullId == <<"null", 0>>
NA_ID == <<"N/A", 0>>
DocId(n) == <<"doc", n>>

NoReq == [entry |-> "none", userId |-> "", agents |-> <<>>, send_email |-> FALSE]
NoOutcome == [agent |-> "", response |-> <<"", "">>, isTechnical |-> FALSE]
NoResponse ==
  [kind |-> "none", code |-> 0, detail |-> "", status |-> "",
   sessionId |-> NullId, responses |-> {}]
NoLog ==
  [userId |-> "", send_email |-> FALSE, session |-> "none", upsert |-> "none"]

NoReport ==
  [kind |-> "none", firestore_status |-> "", gemini_status |-> "",
   pushover_status |-> "", overall_status |-> "", probed |-> {}]

\* raise HTTPException(status_code=code, detail=detail)
HttpError(code, detail) ==
  [kind |-> "error", code |-> code, detail |-> detail, status |-> "",
   sessionId |-> NullId, responses |-> {}]

\* return {"status": ..., "sessionId": ..., "responses": ...}
Reply(status, sid, resp) ==
  [kind |-> "ok", code |-> 200, detail |-> "", status |-> status,
   sessionId |-> sid, responses |-> resp]

\* All sequences over S of length at most n.
RECURSIVE SeqsUpTo(_, _)
SeqsUpTo(S, n) ==
  IF n = 0 THEN {<<>>}
  ELSE LET shorter == SeqsUpTo(S, n - 1)
       IN shorter \cup {Append(s, x) : s \in {t \in shorter : Len(t) = n - 1}, x \in S}

\* The agent lists of the requests: every list of at most MaxLen entries, and
\* one over-limit list of MAX_AGENTS + 1 entries.
OverLimitList == [i \in 1..(MAX_AGENTS + 1) |-> "GoalClarifier"]
AgentLists == SeqsUpTo(AgentIds, MaxLen) \cup {OverLimitList}

\* ------------------------------------------------- process_agent_response
\* AGENT_SPECIALIZATIONS.get(agent, {"name": agent, ...})["name"]
SpecializationName(agent) ==
  IF agent \in KnownAgents THEN "Goal Clarifier" ELSE agent

\* the outcome returned when gemini_model is None
UnavailableOutcome(agent) ==
  [agent |-> agent, response |-> <<"unavailable", agent>>, isTechnical |-> FALSE]

\* the outcome returned with response.text
SuccessOutcome(agent) ==
  [agent |-> agent, response |-> <<"generated", SpecializationName(agent)>>,
   isTechnical |-> TRUE]

\* the outcome returned by the except clause
ErrorOutcomeMarkedTechnical(agent) ==
  [agent |-> agent, response |-> <<"issues", agent>>, isTechnical |-> TRUE]
ErrorOutcome(agent) ==
  [agent |-> agent, response |-> <<"issues", agent>>, isTechnical |-> FALSE]

IsFallbackText(text, agent) ==
  text \in {<<"unavailable", agent>>, <<"issues", agent>>}

\* What an exception inside the try block does to the task.
OnBackendErrorReraise(agent) == [st |-> "raised", out |-> NoOutcome]
OnBackendError(agent) == [st |-> "done", out |-> ErrorOutcome(agent)]

\* ------------------------------------------------------------- run_agents
\* len(req.agents) > 5
TooManyAgents(agents) == Len(agents) > MAX_AGENTS

\* The checks made before the fan-out; NoResponse when the request passes.
PrecheckSizeOnly(entry, agents) ==
  IF entry = "backend" /\ TooManyAgents(agents)
  THEN HttpError(400, "Maximum 5 agents allowed")
  ELSE NoResponse
Precheck(entry, agents) ==
  IF entry = "backend"
  THEN IF ~db_init
       THEN HttpError(503, "Service Unavailable: Database connection failed during startup.")
       ELSE IF ~gemini_init
       THEN HttpError(503, "Service Unavailable: AI model initialization failed during startup.")
       ELSE IF TooManyAgents(agents)
       THEN HttpError(400, "Maximum 5 agents allowed")
       ELSE NoResponse
  ELSE NoResponse

\* d[k] = v on a dict held as a set of pairs
DictSetKeepFirst(d, k, v) ==
  IF k \in {p[1] : p \in d} THEN d ELSE d \cup {<<k, v>>}
DictSet(d, k, v) == {p \in d : p[1] # k} \cup {<<k, v>>}
Keys(d) == {p[1] : p \in d}

\* {r["agent"]: r["response"] for r in results}
RECURSIVE BuildFrom(_, _, _)
BuildFrom(rs, i, d) ==
  IF i > Len(rs) THEN d
  ELSE BuildFrom(rs, i + 1, DictSet(d, rs[i].agent, rs[i].response))
BuildResponsesTechnicalOnly(rs) ==
  BuildFrom(SelectSeq(rs, LAMBDA r : r.isTechnical), 1, {})
BuildResponses(rs) == BuildFrom(rs, 1, {})

\* any(r["isTechnical"] for r in results)
AllTechnical(rs) == \A i \in 1..Len(rs) : rs[i].isTechnical
AnyTechnical(rs) == \E i \in 1..Len(rs) : rs[i].isTechnical

\* session_data: the fields that are derived from the fan-out and the owner;
\* question, agents, createdAt and technicalKeywords are copies of request
\* data that no operation reads back.
SessionData(r, resp, rs) ==
  [userId |-> r.userId, responses |-> resp, isTechnical |-> AnyTechnical(rs)]

\* db.collection("sessions").document() names a new document and
\* session_ref.set(session_data) creates it: the collection gets one more
\* record and no existing record is touched.
WriteSessionTwice(ss, data) == Append(Append(ss, data), data)
WriteSession(ss, data) == Append(ss, data)

\* "except Exception" of the handler: what a raising write leaves the caller.
\* run_agents wraps the session write in its own try; run_agents_endpoint
\* does not, so its outer handler turns the exception into a 500.
ServerError == HttpError(500, "An unexpected server error occurred")
OnSessionWriteErrorRaise(entry, resp) == ServerError
OnSessionWriteError(entry, resp) ==
  IF entry = "backend" THEN Reply("partial_success", NA_ID, resp) ELSE ServerError

\* run_agents passes over a raising reminder block; run_agents_endpoint has
\* no try around it. "continue" stands for going on to the return statement.
OnReminderErrorRaise(entry) == "raise"
OnReminderError(entry) == IF entry = "backend" THEN "continue" ELSE "raise"

\* Where the handler stands after a raising session write: both handlers
\* leave at once, run_agents by its return, run_agents_endpoint by the raise.
AfterSessionWriteErrorContinue == "reminder"
AfterSessionWriteError == "done"

\* results = await asyncio.gather(*tasks): resumes when every task is over
FirstComplete(ts) == \E i \in 1..Len(ts) : ts[i] \in {"done", "raised"}
AllComplete(ts) == \A i \in 1..Len(ts) : ts[i] \in {"done", "raised"}

\* process_agent_response has no await: its synchronous generate_content call
\* occupies the event-loop thread, so nothing else runs until it returns.
LoopFree == \A i \in 1..Len(tasks) : tasks[i] \notin {"calling", "hung"}

\* asyncio.create_task(...) is reached only when user_ref.set returned
NotifAlways(upsertOk) == "scheduled"
NotifAfterUpsert(upsertOk) == IF upsertOk THEN "scheduled" ELSE "none"

\* main.py raises at import unless db, the Gemini key and Pushover are set
MainStarted == db_init /\ pushover_creds

\* ------------------------------------ scripts/send_daily_motivation.py
\* The job reads the users collection that run_agents upserts into, with
\* three more fields per document: email, reminderPlan and lastEmailSent.
\* A plan is held as the sequence of the day numbers of its "**Day n:"
\* headers, a position in the text being an index of that sequence.
JobUsers == {"u1", "u2"}
FirstDay == 13
Days == FirstDay..(FirstDay + MaxDays - 1)
NoDate == <<"none", 0>>
\* datetime.utcnow().strftime("%Y-%m-%d"), within one month
DateStr(d) == <<"date", d>>
NoEmail == ""
Emails == {NoEmail, "a@example.com"}
Plans == {<<>>, <<6, 7>>, <<7, 6>>, <<7>>}
JobDocs ==
  [exists : {TRUE}, reminderEnabled : BOOLEAN, email : Emails,
   reminderPlan : Plans, lastEmailSent : {NoDate, DateStr(FirstDay)}]

\* (datetime.utcnow().day % 7) or 7
TodayIndex(d) == IF d % 7 = 0 THEN 7 ELSE d % 7

\* plan.find(f"**Day {day}:"): the first position, 0 standing for -1
Find(plan, day) ==
  IF \E i \in 1..Len(plan) : plan[i] = day
  THEN CHOOSE i \in 1..Len(plan) :
         plan[i] = day /\ \A j \in 1..(i - 1) : plan[j] # day
  ELSE 0

\* plan[start:end]: empty when end is not after start
Slice(plan, start, end) ==
  IF end > start THEN SubSeq(plan, start, end - 1) ELSE <<>>

\* extract_day_content: None when the day's header is missing, else the text
\* from it up to the next day's header or to the end. None and the empty
\* text are both <<>> here: the caller only tests "if content".
ExtractDayContent(plan, day) ==
  LET start == Find(plan, day)
      end == Find(plan, day + 1)
  IN IF start = 0 THEN <<>>
     ELSE IF end # 0 THEN Slice(plan, start, end)
     ELSE Slice(plan, start, Len(plan) + 1)

\* if not email or not plan: continue
Incomplete(doc) == doc.email = NoEmail \/ doc.reminderPlan = <<>>

\* if last_sent == today_str: continue
AlreadySentNever(last_sent, today_str) == FALSE
AlreadySent(last_sent, today_str) == last_sent = today_str

\* The documents of where("reminderEnabled", "==", True).stream(), in the
\* order of their ids, each as it was when the query ran.
RECURSIVE QueryFrom(_, _)
QueryFrom(docs, ids) ==
  IF ids = <<>> THEN <<>>
  ELSE LET u == Head(ids)
           rest == QueryFrom(docs, Tail(ids))
       IN IF docs[u].exists /\ docs[u].reminderEnabled
          THEN <<[id |-> u, doc |-> docs[u]]>> \o rest
          ELSE rest
ReminderQuery(docs) == QueryFrom(docs, <<"u1", "u2">>)

\* The job is at a document it will mail: complete, not mailed today, and
\* with content for today's day index.
Due(doc, d) ==
  /\ ~Incomplete(doc)
  /\ ~AlreadySent(doc.lastEmailSent, DateStr(d))
  /\ ExtractDayContent(doc.reminderPlan, TodayIndex(d)) # <<>>

NoSends == [u \in JobUsers |-> [d \in Days |-> 0]]

\* ------------------------------------------------------------------- Init
Init ==
  /\ db_init \in BOOLEAN
  /\ gemini_init \in BOOLEAN
  /\ pushover_creds \in BOOLEAN
  /\ pc = "idle"
  /\ nreq = 0
  /\ req = NoReq
  /\ tasks = <<>>
  /\ attempts = <<>>
  /\ calls = <<>>
  /\ results = <<>>
  /\ responses = {}
  /\ session_ref = NullId
  /\ response = NoResponse
  /\ sessions = <<>>
  /\ users = [u \in Users |-> [exists |-> FALSE, reminderEnabled |-> FALSE]]
  /\ notif = [r \in 1..MaxRequests |-> "none"]
  /\ reqlog = [r \in 1..MaxRequests |-> NoLog]
  /\ posts = [r \in 1..MaxRequests |-> 0]
  /\ health = NoReport
  /\ clock = FirstDay
  /\ jpc = "idle"
  /\ today = FirstDay
  /\ stream = <<>>
  /\ sends = NoSends
  /\ mailed = {}
  /\ nruns = 0
  /\ update_failed = FALSE

\* The state in which the daily job is studied: the API is idle and the
\* users collection holds any documents with the fields the job reads.
JobInit ==
  /\ db_init = TRUE
  /\ gemini_init = TRUE
  /\ pushover_creds = TRUE
  /\ pc = "idle"
  /\ nreq = 0
  /\ req = NoReq
  /\ tasks = <<>>
  /\ attempts = <<>>
  /\ calls = <<>>
  /\ results = <<>>
  /\ responses = {}
  /\ session_ref = NullId
  /\ response = NoResponse
  /\ sessions = <<>>
  /\ users \in [JobUsers -> JobDocs]
  /\ notif = [r \in 1..MaxRequests |-> "none"]
  /\ reqlog = [r \in 1..MaxRequests |-> NoLog]
  /\ posts = [r \in 1..MaxRequests |-> 0]
  /\ health = NoReport
  /\ clock = FirstDay
  /\ jpc = "idle"
  /\ today = FirstDay
  /\ stream = <<>>
  /\ sends = NoSends
  /\ mailed = {}
  /\ nruns = 0
  /\ update_failed = FALSE

\* ------------------------------------------------------------ health_check
\* health_check reads db, gemini_model and the Pushover credentials and writes
\* only the health_checks/api_status document, which no other code reads: it
\* shares no state with a request, so it runs here to its end before the
\* first request is received instead of being interleaved with one.
ErrorDetails == {"deadline exceeded"}
Services == {"firestore", "gemini", "pushover"}
FirestoreOutcomes == {"exists", "missing", "raises"}
GeminiOutcomes == {"text", "no_text", "raises"}
RAISED == "<raised>"

\* except Exception as e: <service>_status = f"error: {str(e)}"
OnProbeErrorReraise(e) == RAISED
OnProbeError(e) == "error: " \o e

\* The Firestore check: set, read back, look at health_doc.exists.
FirestoreStatusNoElse(init, outcome, e) ==
  IF ~init THEN "disconnected"
  ELSE CASE outcome = "exists" -> "connected"
         [] outcome = "missing" -> "doc_not_found_after_write"
         [] OTHER -> OnProbeError(e)
FirestoreStatus(init, outcome, e) ==
  IF ~init THEN "initialization_failed"
  ELSE CASE outcome = "exists" -> "connected"
         [] outcome = "missing" -> "doc_not_found_after_write"
         [] OTHER -> OnProbeError(e)

\* The Gemini check: generate_content("hello"), look at .text.
GeminiStatus(init, outcome, e) ==
  IF ~init THEN "initialization_failed"
  ELSE CASE outcome = "text" -> "available"
         [] outcome = "no_text" -> "no_response"
         [] OTHER -> OnProbeError(e)

\* send_pushover_notification: False without credentials or when the POST fails
PushoverOk(creds, delivered) == creds /\ delivered
PushoverStatus(ok) == IF ok THEN "connected" ELSE "unavailable"

OverallStatusIgnoringPushover(fs, gm, po) ==
  IF fs # "connected" \/ gm # "available" THEN "unhealthy" ELSE "healthy"
OverallStatus(fs, gm, po) ==
  IF fs # "connected" \/ gm # "available" \/ po # "connected"
  THEN "unhealthy"
  ELSE "healthy"

HealthRunning == health.kind \in Services

\* ---------------------------------------------------------------- actions
\* A request arrives at run_agents ("backend") or run_agents_endpoint ("main").
Receive(entry, u, agents, flag) ==
  /\ pc \in {"idle", "done"}
  /\ ~HealthRunning
  /\ nreq < MaxRequests
  /\ entry = "main" => MainStarted
  /\ nreq' = nreq + 1
  /\ req' = [entry |-> entry, userId |-> u, agents |-> agents, send_email |-> flag]
  /\ reqlog' = [reqlog EXCEPT ![nreq + 1] = [NoLog EXCEPT !.userId = u, !.send_email = flag]]
  /\ responses' = {}
  /\ session_ref' = NullId
  /\ LET rejected == Precheck(entry, agents)
     IN IF rejected # NoResponse
        THEN /\ response' = rejected
             /\ pc' = "done"
             /\ tasks' = <<>>
             /\ attempts' = <<>>
             /\ calls' = <<>>
             /\ results' = <<>>
        ELSE /\ response' = NoResponse
             /\ pc' = "gather"
             /\ tasks' = [i \in 1..Len(agents) |-> "pending"]
             /\ attempts' = [i \in 1..Len(agents) |-> 0]
             /\ calls' = [i \in 1..Len(agents) |-> "none"]
             /\ results' = [i \in 1..Len(agents) |-> NoOutcome]
  /\ health' = NoReport
  /\ UNCHANGED job_vars
  /\ UNCHANGED <<db_init, gemini_init, pushover_creds, posts, sessions, users, notif>>

\* The event loop runs the next task of the fan-out up to its backend call.
RunTask(i) ==
  /\ pc = "gather"
  /\ i \in 1..Len(tasks)
  /\ tasks[i] = "pending"
  /\ \A j \in 1..(i - 1) : tasks[j] # "pending"
  /\ LoopFree
  /\ IF ~gemini_init
     THEN /\ tasks' = [tasks EXCEPT ![i] = "done"]
          /\ results' = [results EXCEPT ![i] = UnavailableOutcome(req.agents[i])]
          /\ UNCHANGED <<attempts, calls>>
     ELSE /\ tasks' = [tasks EXCEPT ![i] = "calling"]
          /\ attempts' = [attempts EXCEPT ![i] = @ + 1]
          /\ calls' = [calls EXCEPT ![i] = "inflight"]
          /\ UNCHANGED results
  /\ UNCHANGED job_vars
  /\ UNCHANGED <<db_init, gemini_init, pushover_creds, health, posts, pc, nreq, req, responses,
                 session_ref, response, sessions, users, notif, reqlog>>

\* generate_content returns a response that has text.
BackendReturnsText(i) ==
  /\ pc = "gather"
  /\ i \in 1..Len(tasks)
  /\ tasks[i] = "calling"
  /\ tasks' = [tasks EXCEPT ![i] = "done"]
  /\ results' = [results EXCEPT ![i] = SuccessOutcome(req.agents[i])]
  /\ calls' = [calls EXCEPT ![i] = "text"]
  /\ UNCHANGED job_vars
  /\ UNCHANGED <<db_init, gemini_init, pushover_creds, health, posts, pc, nreq, req, attempts,
                 responses, session_ref, response, sessions, users, notif, reqlog>>

\* The except clause of process_agent_response ends the task.
TaskFails(i) ==
  /\ pc = "gather"
  /\ i \in 1..Len(tasks)
  /\ tasks[i] = "calling"
  /\ LET after == OnBackendError(req.agents[i])
     IN /\ tasks' = [tasks EXCEPT ![i] = after.st]
        /\ results' = [results EXCEPT ![i] = after.out]
  /\ calls' = [calls EXCEPT ![i] = "failed"]
  /\ UNCHANGED job_vars
  /\ UNCHANGED <<db_init, gemini_init, pushover_creds, health, posts, pc, nreq, req, attempts,
                 responses, session_ref, response, sessions, users, notif, reqlog>>

\* generate_content raises.
BackendRaises(i) ==
  /\ i \in 1..Len(tasks)
  /\ TaskFails(i)

\* generate_content returns a response without text: response.text raises.
BackendNoText(i) ==
  /\ i \in 1..Len(tasks)
  /\ TaskFails(i)

\* generate_content never returns.
BackendHangs(i) ==
  /\ pc = "gather"
  /\ i \in 1..Len(tasks)
  /\ tasks[i] = "calling"
  /\ tasks' = [tasks EXCEPT ![i] = "hung"]
  /\ calls' = [calls EXCEPT ![i] = "hung"]
  /\ UNCHANGED job_vars
  /\ UNCHANGED <<db_init, gemini_init, pushover_creds, health, posts, pc, nreq, req, attempts,
                 results, responses, session_ref, response, sessions, users,
                 notif, reqlog>>

\* asyncio.gather resumes the handler, which builds the responses dict.
GatherDone ==
  /\ pc = "gather"
  /\ LoopFree
  /\ AllComplete(tasks)
  /\ IF \E i \in 1..Len(tasks) : tasks[i] = "raised"
     THEN /\ response' = ServerError
          /\ pc' = "done"
          /\ UNCHANGED responses
     ELSE /\ responses' = BuildResponses(results)
          /\ pc' = "store"
          /\ UNCHANGED response
  /\ UNCHANGED job_vars
  /\ UNCHANGED <<db_init, gemini_init, pushover_creds, health, posts, nreq, req, tasks, attempts, calls,
                 results, session_ref, sessions, users, notif, reqlog>>

\* session_ref.set(session_data) succeeds.
SessionSetOk ==
  /\ pc = "store"
  /\ sessions' = WriteSession(sessions, SessionData(req, responses, results))
  /\ session_ref' = DocId(Len(sessions) + 1)
  /\ reqlog' = [reqlog EXCEPT ![nreq].session = "ok"]
  /\ pc' = "reminder"
  /\ UNCHANGED job_vars
  /\ UNCHANGED <<db_init, gemini_init, pushover_creds, health, posts, nreq, req, tasks, attempts, calls,
                 results, responses, response, users, notif>>

\* The session write raises.
SessionSetFails ==
  /\ pc = "store"
  /\ reqlog' = [reqlog EXCEPT ![nreq].session = "failed"]
  /\ response' = OnSessionWriteError(req.entry, responses)
  /\ pc' = AfterSessionWriteError
  /\ UNCHANGED job_vars
  /\ UNCHANGED <<db_init, gemini_init, pushover_creds, health, posts, nreq, req, tasks, attempts, calls,
                 results, responses, session_ref, sessions, users, notif>>

\* The handler reaches its return statement: the reminder block was skipped
\* (send_email false) or is over.
ReturnSuccess ==
  /\ pc = "return" \/ (pc = "reminder" /\ ~req.send_email)
  /\ response' = Reply("success", session_ref, responses)
  /\ pc' = "done"
  /\ UNCHANGED job_vars
  /\ UNCHANGED <<db_init, gemini_init, pushover_creds, health, posts, nreq, req,
                 tasks, attempts, calls, results, responses, session_ref,
                 sessions, users, notif, reqlog>>

\* user_ref.set(..., merge=True) succeeds, the notification task is created.
ReminderOk ==
  /\ pc = "reminder"
  /\ req.send_email
  /\ users' = [users EXCEPT ![req.userId] =
                 [exists |-> TRUE, reminderEnabled |-> TRUE]]
  /\ reqlog' = [reqlog EXCEPT ![nreq].upsert = "ok"]
  /\ notif' = [notif EXCEPT ![nreq] = NotifAfterUpsert(TRUE)]
  /\ pc' = "return"
  /\ UNCHANGED job_vars
  /\ UNCHANGED <<db_init, gemini_init, pushover_creds, health, posts, nreq, req,
                 tasks, attempts, calls, results, responses, session_ref,
                 response, sessions>>

\* user_ref.set raises.
ReminderFails ==
  /\ pc = "reminder"
  /\ req.send_email
  /\ reqlog' = [reqlog EXCEPT ![nreq].upsert = "failed"]
  /\ notif' = [notif EXCEPT ![nreq] = NotifAfterUpsert(FALSE)]
  /\ IF OnReminderError(req.entry) = "continue"
     THEN pc' = "return" /\ UNCHANGED response
     ELSE pc' = "done" /\ response' = ServerError
  /\ UNCHANGED job_vars
  /\ UNCHANGED <<db_init, gemini_init, pushover_creds, health, posts, nreq, req,
                 tasks, attempts, calls, results, responses, session_ref,
                 sessions, users>>

\* The handler is not running and the loop thread is not inside a blocking
\* call: between create_task and the return there is no await, so the
\* notification task cannot start before the handler has returned.
NotifyAnyTime == LoopFree
LoopIdle == pc \in {"idle", "gather", "done"} /\ LoopFree

\* What send_pushover_notification_async does after a failed send: it prints.
AfterSendFailureRetry == "scheduled"
AfterSendFailure == "failed"

\* send_pushover_notification_async runs once the handler has given up the
\* loop: asyncio.sleep(1), then send_pushover_notification posts and returns
\* True.
NotifySendOk(r) ==
  /\ notif[r] = "scheduled"
  /\ LoopIdle
  /\ pushover_creds
  /\ posts[r] < MaxPosts
  /\ posts' = [posts EXCEPT ![r] = @ + 1]
  /\ notif' = [notif EXCEPT ![r] = "sent"]
  /\ UNCHANGED job_vars
  /\ UNCHANGED <<db_init, gemini_init, pushover_creds, health, pc, nreq, req,
                 tasks, attempts, calls, results, responses, session_ref,
                 response, sessions, users, reqlog>>

\* The POST raises or is answered with a non-2xx status:
\* send_pushover_notification returns False.
NotifySendFails(r) ==
  /\ notif[r] = "scheduled"
  /\ LoopIdle
  /\ pushover_creds
  /\ posts[r] < MaxPosts
  /\ posts' = [posts EXCEPT ![r] = @ + 1]
  /\ notif' = [notif EXCEPT ![r] = AfterSendFailure]
  /\ UNCHANGED job_vars
  /\ UNCHANGED <<db_init, gemini_init, pushover_creds, health, pc, nreq, req,
                 tasks, attempts, calls, results, responses, session_ref,
                 response, sessions, users, reqlog>>

\* The credentials are missing: send_pushover_notification returns False
\* without contacting Pushover.
NotifyNoCredentials(r) ==
  /\ notif[r] = "scheduled"
  /\ LoopIdle
  /\ ~pushover_creds
  /\ notif' = [notif EXCEPT ![r] = "failed"]
  /\ UNCHANGED job_vars
  /\ UNCHANGED <<db_init, gemini_init, pushover_creds, health, posts, pc, nreq,
                 req, tasks, attempts, calls, results, responses, session_ref,
                 response, sessions, users, reqlog>>

\* health_check is called: the three statuses get their initial values.
HealthStart ==
  /\ pc = "idle"
  /\ ~HealthRunning
  /\ health' = [NoReport EXCEPT !.kind = "firestore",
                                !.firestore_status = "disconnected",
                                !.pushover_status = "unavailable",
                                !.gemini_status = "unavailable"]
  /\ UNCHANGED job_vars
  /\ UNCHANGED <<db_init, gemini_init, pushover_creds, pc, nreq, req, tasks,
                 attempts, calls, results, responses, session_ref, response,
                 sessions, users, notif, reqlog, posts>>

\* One probe has run and left status st; a probe that raises ends the call.
AfterProbe(service, st, next) ==
  IF st = RAISED
  THEN [health EXCEPT !.kind = "raised"]
  ELSE [health EXCEPT !.kind = next,
                      ![service \o "_status"] = st,
                      !.probed = @ \cup {service}]

\* The Firestore check.
HealthFirestoreProbe(outcome, e) ==
  /\ health.kind = "firestore"
  /\ health' = AfterProbe("firestore", FirestoreStatus(db_init, outcome, e), "gemini")
  /\ UNCHANGED job_vars
  /\ UNCHANGED <<db_init, gemini_init, pushover_creds, pc, nreq, req, tasks,
                 attempts, calls, results, responses, session_ref, response,
                 sessions, users, notif, reqlog, posts>>

\* The Gemini check.
HealthGeminiProbe(outcome, e) ==
  /\ health.kind = "gemini"
  /\ health' = AfterProbe("gemini", GeminiStatus(gemini_init, outcome, e), "pushover")
  /\ UNCHANGED job_vars
  /\ UNCHANGED <<db_init, gemini_init, pushover_creds, pc, nreq, req, tasks,
                 attempts, calls, results, responses, session_ref, response,
                 sessions, users, notif, reqlog, posts>>

\* The Pushover check, the overall status and the return of the report.
HealthPushoverProbe(delivered) ==
  /\ health.kind = "pushover"
  /\ LET st == PushoverStatus(PushoverOk(pushover_creds, delivered))
         h == AfterProbe("pushover", st, "report")
     IN health' = [h EXCEPT !.overall_status =
                     OverallStatus(h.firestore_status, h.gemini_status, h.pushover_status)]
  /\ UNCHANGED job_vars
  /\ UNCHANGED <<db_init, gemini_init, pushover_creds, pc, nreq, req, tasks,
                 attempts, calls, results, responses, session_ref, response,
                 sessions, users, notif, reqlog, posts>>

Next ==
  \/ \E e \in Entries, u \in Users, a \in AgentLists, f \in BOOLEAN : Receive(e, u, a, f)
  \/ \E i \in 1..(MAX_AGENTS + 1) : RunTask(i)
  \/ \E i \in 1..(MAX_AGENTS + 1) : BackendReturnsText(i)
  \/ \E i \in 1..(MAX_AGENTS + 1) : BackendRaises(i)
  \/ \E i \in 1..(MAX_AGENTS + 1) : BackendNoText(i)
  \/ \E i \in 1..(MAX_AGENTS + 1) : BackendHangs(i)
  \/ GatherDone
  \/ SessionSetOk
  \/ SessionSetFails
  \/ ReturnSuccess
  \/ ReminderOk
  \/ ReminderFails
  \/ \E r \in 1..MaxRequests : NotifySendOk(r)
  \/ \E r \in 1..MaxRequests : NotifySendFails(r)
  \/ \E r \in 1..MaxRequests : NotifyNoCredentials(r)
  \/ HealthStart
  \/ \E o \in FirestoreOutcomes, e \in ErrorDetails : HealthFirestoreProbe(o, e)
  \/ \E o \in GeminiOutcomes, e \in ErrorDetails : HealthGeminiProbe(o, e)
  \/ \E d \in BOOLEAN : HealthPushoverProbe(d)

Spec == Init /\ [][Next]_vars

\* The event loop keeps running whatever is runnable.
LiveSpec == Init /\ [][Next]_vars /\ WF_vars(Next)

\* ------------------------------------------------- the daily job's actions
api_vars == <<db_init, gemini_init, pushover_creds, pc, nreq, req, tasks,
              attempts, calls, results, responses, session_ref, response,
              sessions, notif, reqlog, posts, health>>

\* main() starts: it reads the date and runs the query. One run at a time.
JobStart ==
  /\ jpc = "idle"
  /\ nruns < MaxRuns
  /\ nruns' = nruns + 1
  /\ today' = clock
  /\ stream' = ReminderQuery(users)
  /\ jpc' = "loop"
  /\ UNCHANGED <<api_vars, users, clock, sends, mailed, update_failed>>

\* One of the three ways the loop passes over a document.
JobSkip ==
  /\ jpc = "loop"
  /\ stream # <<>>
  /\ ~Due(Head(stream).doc, today)
  /\ stream' = Tail(stream)
  /\ UNCHANGED <<api_vars, users, clock, jpc, today, sends, mailed, nruns,
                 update_failed>>

\* send_email is called; it swallows every exception of SendGrid.
JobSendEmail(accepted) ==
  /\ jpc = "loop"
  /\ stream # <<>>
  /\ Due(Head(stream).doc, today)
  /\ LET u == Head(stream).id
     IN /\ sends' = [sends EXCEPT ![u][today] = @ + 1]
        /\ mailed' = IF accepted THEN mailed \cup {<<u, today>>} ELSE mailed
  /\ jpc' = "update"
  /\ UNCHANGED <<api_vars, users, clock, today, stream, nruns, update_failed>>

\* update({"lastEmailSent": today_str}) succeeds.
JobUpdateOk ==
  /\ jpc = "update"
  /\ users' = [users EXCEPT ![Head(stream).id].lastEmailSent = DateStr(today)]
  /\ stream' = Tail(stream)
  /\ jpc' = "loop"
  /\ UNCHANGED <<api_vars, clock, today, sends, mailed, nruns, update_failed>>

\* update raises: nothing catches it and the run ends there.
JobUpdateFails ==
  /\ jpc = "update"
  /\ update_failed' = TRUE
  /\ stream' = <<>>
  /\ jpc' = "idle"
  /\ UNCHANGED <<api_vars, users, clock, today, sends, mailed, nruns>>

\* The loop is over and main() returns.
JobEnd ==
  /\ jpc = "loop"
  /\ stream = <<>>
  /\ jpc' = "idle"
  /\ UNCHANGED <<api_vars, users, clock, today, stream, sends, mailed, nruns,
                 update_failed>>

\* Midnight UTC passes, during a run or between two.
Midnight ==
  /\ clock + 1 \in Days
  /\ clock' = clock + 1
  /\ UNCHANGED <<api_vars, users, jpc, today, stream, sends, mailed, nruns,
                 update_failed>>

\* run_agents upserts a user's reminder state, at any moment of the job:
\* set(..., merge=True) writes reminderEnabled and email (None when the
\* request has none) and leaves reminderPlan and lastEmailSent as they are.
ReminderUpsert(u, e) ==
  /\ users' = [users EXCEPT ![u].reminderEnabled = TRUE, ![u].email = e]
  /\ UNCHANGED <<api_vars, clock, jpc, today, stream, sends, mailed, nruns,
                 update_failed>>

JobNext ==
  \/ JobStart
  \/ JobSkip
  \/ \E a \in BOOLEAN : JobSendEmail(a)
  \/ JobUpdateOk
  \/ JobUpdateFails
  \/ JobEnd
  \/ Midnight
  \/ \E u \in JobUsers, e \in Emails : ReminderUpsert(u, e)

\* The daily job run again and again, on one date and on the next.
JobSpec == JobInit /\ [][JobNext]_vars

\* ------------------------------------------------------------ properties
AgentSet(agents) == {agents[i] : i \in 1..Len(agents)}
\* generate_content calls made for the current request
BackendCalls == Len(SelectSeq(calls, LAMBDA c : c # "none"))
\* db is not None and gemini_model is not None
ClientsReady == db_init /\ gemini_init
\* a request has been received
Handling == nreq > 0
\* The handler is past the join of the fan-out.
PastJoin ==
  pc \in {"store", "reminder", "return"} \/ (pc = "done" /\ response.kind = "ok")

\* C1: a request with more than 5 agents is rejected with the 400 "Maximum 5
\* agents allowed" error at either entry point, with no generation-backend
\* call made and no session written.
C1_OverLimitRejected ==
  (Handling /\ ClientsReady /\ Len(req.agents) > MAX_AGENTS) =>
    /\ pc = "done"
    /\ response = HttpError(400, "Maximum 5 agents allowed")
    /\ BackendCalls = 0
    /\ reqlog[nreq].session = "none"

\* C2: for a request of at most 5 agents with both clients initialized,
\* run_agents returns a responses map whose keys are exactly the distinct
\* agent identifiers of the request, whatever succeeded or failed.
C2_ResponseKeys ==
  (pc = "done" /\ req.entry = "backend" /\ ClientsReady
     /\ Len(req.agents) <= MAX_AGENTS) =>
    /\ response.kind = "ok"
    /\ Keys(response.responses) = AgentSet(req.agents)

C2_Witness ==
  /\ pc = "done"
  /\ req.entry = "backend"
  /\ req.agents = <<"GoalClarifier", "Custom">>
  /\ calls = <<"failed", "text">>
  /\ Keys(response.responses) = {"GoalClarifier", "Custom"}

\* C3: when the calls of one requested agent fail and the calls of every other
\* agent succeed, run_agents returns a text for every requested agent, only
\* the failing agent's outcome is a fallback with isTechnical = false, the
\* others are generated texts with isTechnical = true, and the session is
\* written unless the session write itself fails.
C3_OneAgentFails ==
  \A a \in AgentIds :
    (/\ pc = "done"
     /\ req.entry = "backend"
     /\ ClientsReady
     /\ a \in AgentSet(req.agents)
     /\ \A i \in 1..Len(calls) :
          calls[i] = (IF req.agents[i] = a THEN "failed" ELSE "text")
     /\ Len(calls) = Len(req.agents)) =>
      /\ response.kind = "ok"
      /\ Keys(response.responses) = AgentSet(req.agents)
      /\ \A i \in 1..Len(results) :
           IF req.agents[i] = a
           THEN /\ ~results[i].isTechnical
                /\ results[i].response = <<"issues", a>>
                /\ <<a, <<"issues", a>>>> \in response.responses
           ELSE /\ results[i].isTechnical
                /\ results[i].response[1] = "generated"
                /\ <<req.agents[i], results[i].response>> \in response.responses
      /\ reqlog[nreq].session # "failed" =>
           /\ response.sessionId = DocId(Len(sessions))
           /\ Len(sessions) > 0
           /\ sessions[Len(sessions)].responses = response.responses

C3_Witness ==
  /\ pc = "done"
  /\ req.entry = "backend"
  /\ req.agents = <<"Custom", "GoalClarifier">>
  /\ calls = <<"failed", "text">>
  /\ response.status = "success"
  /\ Len(sessions) = 1

\* C4: when the session write fails, the caller of either entry point receives
\* a response (not an error) with the computed responses map, sessionId null
\* and status partial_success.
C4_PersistenceFailure ==
  (Handling /\ pc = "done" /\ reqlog[nreq].session = "failed") =>
    response = Reply("partial_success", NullId, BuildResponses(results))

\* C5: process_agent_response never raises; it always returns an outcome for
\* the agent it was called with, and whenever the backend did not return text
\* the outcome has isTechnical = false and a fallback text naming the agent.
C5_InvokerNeverRaises ==
  \A i \in 1..Len(tasks) :
    /\ tasks[i] # "raised"
    /\ tasks[i] = "done" =>
         /\ results[i].agent = req.agents[i]
         /\ results[i] # NoOutcome
         /\ calls[i] # "text" =>
              /\ ~results[i].isTechnical
              /\ IsFallbackText(results[i].response, req.agents[i])

C5_Witness ==
  \E i \in 1..Len(tasks) :
    /\ tasks[i] = "done"
    /\ req.agents[i] = "Custom"
    /\ calls[i] = "failed"
    /\ results[i] = ErrorOutcome("Custom")

\* C6: a failing generation call is retried, and the fallback outcome is
\* returned only after the third attempt of the invocation has failed.
C6_FallbackAfterThirdAttempt ==
  \A i \in 1..Len(tasks) :
    (tasks[i] = "done" /\ calls[i] = "failed") => attempts[i] = 3

\* C7: every accepted request eventually gets its response, even when a
\* generation call never returns.
C7_EventuallyReturns == (pc = "gather") ~> (pc = "done")

\* C8: the handler builds the responses map, writes the session and returns
\* only after every dispatched invocation has produced its outcome.
C8_AllCompleteJoin ==
  (PastJoin \/ (Handling /\ reqlog[nreq].session # "none")) =>
    /\ Len(tasks) = Len(req.agents)
    /\ \A i \in 1..Len(tasks) : tasks[i] = "done" /\ results[i] # NoOutcome
    /\ responses = BuildResponses(results)

C8_Witness ==
  /\ pc = "done"
  /\ response.kind = "ok"
  /\ calls = <<"failed", "text">>
  /\ tasks = <<"done", "done">>

\* C9: the invocations of one fan-out run concurrently: while the backend call
\* of one entry is in flight, a later entry's invocation can start its own.
C9_ConcurrentCalls ==
  \A i, j \in 1..Len(tasks) :
    (pc = "gather" /\ i < j /\ tasks[i] = "calling" /\ tasks[j] = "pending"
       /\ \A k \in 1..(j - 1) : tasks[k] # "pending") =>
      ENABLED RunTask(j)

\* C10: a notification task exists only for a request whose reminder flag is
\* true and whose ReminderState upsert has succeeded.
C10_NotifyOnlyAfterUpsert ==
  \A r \in 1..MaxRequests :
    notif[r] # "none" =>
      /\ r <= nreq
      /\ reqlog[r].send_email
      /\ reqlog[r].upsert = "ok"
      /\ users[reqlog[r].userId].reminderEnabled

C10_Witness ==
  \E r \in 1..MaxRequests :
    /\ notif[r] = "scheduled"
    /\ reqlog[r].send_email
    /\ reqlog[r].upsert = "ok"

\* The request with id r has been answered.
Answered(r) == r < nreq \/ (r = nreq /\ pc = "done")

\* C11: the notification task never blocks the request: whenever the task of
\* a request has contacted Pushover or ended, run_agents has already returned
\* that request's response, and the return never waits for the task.
C11_ResponseBeforeNotification ==
  /\ \A r \in 1..MaxRequests :
       (notif[r] \in {"sent", "failed"} \/ posts[r] > 0) =>
         /\ Answered(r)
         /\ r = nreq => response.kind = "ok" /\ response.status = "success"
  /\ pc = "return" => (notif[nreq] \in {"none", "scheduled"} /\ ENABLED ReturnSuccess)

C11_Witness ==
  /\ pc = "done"
  /\ notif[nreq] = "sent"
  /\ posts[nreq] = 1
  /\ response.status = "success"

\* C12: a notification failure is absorbed: Pushover is contacted at most once
\* per request, the caller's status, sessionId and responses are those of the
\* successful request, and the user's reminderEnabled flag stays true.
C12_NotificationFailureAbsorbed ==
  \A r \in 1..MaxRequests :
    /\ posts[r] <= 1
    /\ notif[r] = "failed" =>
         /\ users[reqlog[r].userId].reminderEnabled
         /\ r = nreq =>
              /\ response = Reply("success", session_ref, BuildResponses(results))
              /\ session_ref = DocId(Len(sessions))

C12_Witness ==
  /\ pc = "done"
  /\ notif[nreq] = "failed"
  /\ posts[nreq] = 1
  /\ response.status = "success"
  /\ users[req.userId].reminderEnabled

\* C13: run_agents answers every request of at most 5 agents, with both
\* clients initialized, by a response carrying the responses map of all its
\* agents, whatever generation, session-write or reminder failure occurred;
\* it raises only the 503 of a missing client and the 400 of too many agents.
C13_BestEffortAnswer ==
  (pc = "done" /\ req.entry = "backend") =>
    IF ClientsReady /\ Len(req.agents) <= MAX_AGENTS
    THEN /\ response.kind = "ok"
         /\ response.status \in {"success", "partial_success"}
         /\ Len(results) = Len(req.agents)
         /\ \A i \in 1..Len(results) : results[i].agent = req.agents[i]
         /\ response.responses = BuildResponses(results)
    ELSE /\ response.kind = "error"
         /\ response.code = (IF ClientsReady THEN 400 ELSE 503)

C13_Witness ==
  /\ pc = "done"
  /\ req.entry = "backend"
  /\ calls = <<"failed", "text">>
  /\ reqlog[nreq].session = "failed"
  /\ response.status = "partial_success"
  /\ Keys(response.responses) = {"GoalClarifier", "Custom"}

\* C14: with the document-store client or the generation client missing,
\* run_agents rejects the request at once with a 503: no task is created, no
\* generation call, session write, reminder upsert or notification happens.
C14_DependencyUnavailable ==
  (Handling /\ req.entry = "backend" /\ ~ClientsReady) =>
    /\ pc = "done"
    /\ response.kind = "error"
    /\ response.code = 503
    /\ tasks = <<>>
    /\ BackendCalls = 0
    /\ reqlog[nreq].session = "none"
    /\ session_ref = NullId
    /\ reqlog[nreq].upsert = "none"
    /\ notif[nreq] = "none"
    /\ posts[nreq] = 0

C14_Witness ==
  /\ pc = "done"
  /\ req.entry = "backend"
  /\ db_init
  /\ ~gemini_init
  /\ req.send_email
  /\ Len(req.agents) = 2
  /\ response.code = 503

\* C19: the isTechnical field of the session record is the OR of the
\* outcomes' flags: true iff at least one invocation of the fan-out got text.
C19_SessionIsTechnical ==
  (Handling /\ reqlog[nreq].session = "ok") =>
    LET rec == sessions[Len(sessions)]
    IN /\ rec.isTechnical = (\E i \in 1..Len(results) : results[i].isTechnical)
       /\ rec.isTechnical = (\E i \in 1..Len(calls) : calls[i] = "text")

C19_Witness ==
  /\ pc = "done"
  /\ reqlog[nreq].session = "ok"
  /\ calls = <<"failed", "text">>
  /\ sessions[Len(sessions)].isTechnical

\* The latest occurrence of agent a in the list.
LastIndex(agents, a) ==
  CHOOSE i \in 1..Len(agents) :
    agents[i] = a /\ \A j \in (i + 1)..Len(agents) : agents[j] # a

\* C20: with an agent identifier repeated in the request, one invocation is
\* made per occurrence, and the responses map holds under that identifier the
\* outcome of its latest occurrence in request order.
C20_LastWriteWins ==
  PastJoin =>
    /\ Len(results) = Len(req.agents)
    /\ \A i \in 1..Len(tasks) :
         tasks[i] = "done" /\ (gemini_init => attempts[i] = 1)
    /\ \A a \in AgentSet(req.agents) : \A i \in 1..Len(results) :
         (<<a, results[i].response>> \in responses) <=>
           (results[i].response = results[LastIndex(req.agents, a)].response)
    /\ response.kind = "ok" => response.responses = responses

C20_Witness ==
  /\ pc = "done"
  /\ req.agents = <<"GoalClarifier", "GoalClarifier">>
  /\ calls = <<"text", "failed">>
  /\ response.responses = {<<"GoalClarifier", <<"issues", "GoalClarifier">>>>}

\* C15: the report's overall status is "healthy" only if firestore is
\* "connected", gemini is "available" and pushover is "connected"; for every
\* other combination of the three statuses it is not "healthy".
C15_HealthyOnlyIfAllSucceed ==
  health.kind = "report" =>
    (health.overall_status = "healthy") <=>
      /\ health.firestore_status = "connected"
      /\ health.gemini_status = "available"
      /\ health.pushover_status = "connected"

C15_Witness ==
  /\ health.kind = "report"
  /\ health.firestore_status = "connected"
  /\ health.gemini_status = "available"
  /\ health.pushover_status = "unavailable"
  /\ health.overall_status = "unhealthy"

\* C16: health_check never raises: a failing probe, or a client that was
\* never initialized, becomes that service's status, the probes after it
\* still run, and the report carries a status for all three services.
C16_HealthCheckNeverRaises ==
  /\ health.kind # "raised"
  /\ health.kind = "gemini" =>
       health.probed = {"firestore"} /\ health.firestore_status # "disconnected"
  /\ health.kind = "pushover" =>
       health.probed = {"firestore", "gemini"}
  /\ health.kind = "report" =>
       /\ health.probed = Services
       /\ health.overall_status \in {"healthy", "unhealthy"}
       /\ \A sv \in Services : health[sv \o "_status"] \notin {"", RAISED}
       /\ ~db_init => health.firestore_status = "initialization_failed"
       /\ ~gemini_init => health.gemini_status = "initialization_failed"
       /\ ~pushover_creds => health.pushover_status = "unavailable"

C16_Witness ==
  /\ health.kind = "report"
  /\ health.firestore_status = "error: deadline exceeded"
  /\ health.gemini_status = "initialization_failed"
  /\ health.pushover_status = "unavailable"
  /\ health.overall_status = "unhealthy"

\* The status sets of the three services as documented.
IsErrorStatus(st) == \E e \in ErrorDetails : st = "error: " \o e
DocumentedFirestore(st) ==
  st \in {"connected", "initialization_failed"} \/ IsErrorStatus(st)
DocumentedGemini(st) ==
  st \in {"available", "no_response", "initialization_failed"} \/ IsErrorStatus(st)
DocumentedPushover(st) == st \in {"connected", "unavailable"}

\* C17: in every report each status lies in its documented set: firestore in
\* connected, initialization_failed, error:<detail>; gemini in available,
\* no_response, initialization_failed, error:<detail>; pushover in connected,
\* unavailable.
C17_StatusesDocumented ==
  health.kind = "report" =>
    /\ DocumentedFirestore(health.firestore_status)
    /\ DocumentedGemini(health.gemini_status)
    /\ DocumentedPushover(health.pushover_status)

\* C17 as amended: the firestore status may also be doc_not_found_after_write,
\* reported when the read-back after a successful write finds no document;
\* the initial values "disconnected" and, for gemini, "unavailable" are
\* never reported.
C17_StatusesAsReported ==
  health.kind = "report" =>
    /\ \/ DocumentedFirestore(health.firestore_status)
       \/ health.firestore_status = "doc_not_found_after_write"
    /\ DocumentedGemini(health.gemini_status)
    /\ DocumentedPushover(health.pushover_status)

C17_Witness ==
  /\ health.kind = "report"
  /\ health.firestore_status = "doc_not_found_after_write"
  /\ health.gemini_status = "no_response"
  /\ health.pushover_status = "connected"

\* C21: a session record is written once and never mutated: a step changes
\* the sessions collection only by adding one new document, for a request
\* that had written none; no step changes or removes an existing document; a
\* request that returned "success" has written exactly one document, whose
\* id is the returned sessionId.
C21_SessionWrittenOnce ==
  [][/\ Len(sessions') >= Len(sessions)
     /\ \A k \in 1..Len(sessions) : sessions'[k] = sessions[k]
     /\ sessions' # sessions =>
          /\ Len(sessions') = Len(sessions) + 1
          /\ nreq' = nreq
          /\ reqlog[nreq].session = "none"
          /\ reqlog'[nreq].session = "ok"
          /\ session_ref' = DocId(Len(sessions'))
          /\ sessions'[Len(sessions')] = SessionData(req, responses, results)
     /\ (pc' = "done" /\ response'.kind = "ok" /\ response'.status = "success") =>
          /\ reqlog'[nreq'].session = "ok"
          /\ response'.sessionId = session_ref'
          /\ session_ref' \in {DocId(k) : k \in 1..Len(sessions')}
          /\ sessions'[session_ref'[2]].responses = response'.responses
    ]_vars

C21_Witness ==
  /\ pc = "done"
  /\ response.status = "success"
  /\ Len(sessions) = 1
  /\ response.sessionId = DocId(1)
  /\ Len(req.agents) = 2

\* C22: when the session write fails in run_agents, the request ends at the
\* partial_success response: even with the reminder flag true the user's
\* reminder state is not upserted and no notification task is scheduled.
C22_SessionFailureSkipsReminder ==
  (Handling /\ req.entry = "backend" /\ reqlog[nreq].session = "failed") =>
    /\ pc = "done"
    /\ response = Reply("partial_success", NA_ID, BuildResponses(results))
    /\ reqlog[nreq].upsert = "none"
    /\ notif[nreq] = "none"
    /\ posts[nreq] = 0
    /\ session_ref = NullId

C22_Witness ==
  /\ pc = "done"
  /\ req.entry = "backend"
  /\ req.send_email
  /\ reqlog[nreq].session = "failed"
  /\ response.status = "partial_success"
  /\ ~users[req.userId].exists

\* C23: when the session write succeeds and the reminder upsert fails in
\* run_agents, the failure is absorbed: the response has status "success",
\* the id of the written session and the full responses map, and no
\* notification task is scheduled.
C23_UpsertFailureAbsorbed ==
  (Handling /\ req.entry = "backend" /\ reqlog[nreq].upsert = "failed") =>
    /\ reqlog[nreq].session = "ok"
    /\ notif[nreq] = "none"
    /\ posts[nreq] = 0
    /\ pc \in {"return", "done"}
    /\ pc = "done" =>
         /\ response = Reply("success", DocId(Len(sessions)), BuildResponses(results))
         /\ sessions[Len(sessions)].responses = response.responses
         /\ Keys(response.responses) = AgentSet(req.agents)

C23_Witness ==
  /\ pc = "done"
  /\ req.entry = "backend"
  /\ reqlog[nreq].upsert = "failed"
  /\ response.status = "success"
  /\ response.sessionId = DocId(1)
  /\ calls = <<"text", "failed">>

\* The latest run date on which a send was attempted for user u.
LastSendDay(u) ==
  CHOOSE d \in Days :
    sends[u][d] > 0 /\ \A e \in Days : sends[u][e] > 0 => e <= d

====
